---------------------------- MODULE Spec2Model ----------------------------
(***************************************************************************)
(* Model of the genai-backend HTTP service (src/main.py, src/auth.py,      *)
(* src/models.py): the user table, the password hasher, the JWT issuer and *)
(* verifier, the routes that sit behind the bearer-token dependency and    *)
(* the signup / login / refresh / logout handlers.                         *)
(*                                                                         *)
(* Time is counted in ticks, TicksPerSecond of them to a second, because   *)
(* datetime.utcnow() has sub-second resolution while the "exp" claim of a  *)
(* token and the verifier's "now" are whole seconds.                       *)
(***************************************************************************)
EXTENDS Integers, FiniteSets, Sequences, TLC

VARIABLES users, convos, clock, issued, jar, resp, pc, local

vars == <<users, convos, clock, issued, jar, resp, pc, local>>

(***************************** bounds and inputs ***************************)

\* largest primary key the user table is explored to
MaxId == 2
\* largest number of rows of the conversation table
MaxConvos == 1
\* resolution of the modelled clock
TicksPerSecond == 2
\* the clock is explored up to MaxDrift ticks past the start and past one
\* access-token lifetime
MaxDrift == 2
\* number of clients that sign up concurrently
NumClients == 2

Emails == {"a@x.com", "b@x.com"}
Names == {"ann", "bob"}
Passwords == {"pw1", "pw2"}
Salts == {"s1", "s2"}
Clients == 1..NumClients

\* Optional[int] id left out of the request body
NoId == 0
Ids == 1..MaxId

(******************************* src/auth.py *******************************)

SECRET_KEY == "your-secret-key"
OtherKey == "some-other-key"

\* a password column value: the text the client sent, or a bcrypt digest
Plain(p) == [kind |-> "plain", salt |-> "", pw |-> p]
Digest(p, s) == [kind |-> "bcrypt", salt |-> s, pw |-> p]

\* pwd_context.hash: a fresh random salt on every call, so the result is one
\* of several digests
hash_password(password) == {Digest(password, s) : s \in Salts}

\* pwd_context.verify: "ok", "mismatch", or "error" (passlib raises when the
\* stored value is not a hash it can identify)
verify_password(plain, hashed) ==
    IF hashed.kind # "bcrypt" THEN "error"
    ELSE IF hashed = Digest(plain, hashed.salt) THEN "ok" ELSE "mismatch"

\* a token without an "exp" claim
NoExp == -1

\* what a client can put in the Authorization header or in the cookie:
\* nothing, an empty string, a string that is no JWT, or a JWT
NoneTok == [kind |-> "none", sub |-> "", exp |-> NoExp, key |-> ""]
EmptyTok == [kind |-> "empty", sub |-> "", exp |-> NoExp, key |-> ""]
GarbageTok == [kind |-> "garbage", sub |-> "", exp |-> NoExp, key |-> ""]

\* jwt.encode(claims, key, algorithm=ALGORITHM)
jwt_encode(sub, exp, key) == [kind |-> "jwt", sub |-> sub, exp |-> exp, key |-> key]

\* the result of a decode: None, or the claims
None == [none |-> TRUE, sub |-> "", exp |-> NoExp]
Claims(sub, exp) == [none |-> FALSE, sub |-> sub, exp |-> exp]

\* timegm(d.utctimetuple()): a datetime as whole seconds, the fraction dropped
timegm(ticks) == ticks \div TicksPerSecond

SecondsPerMinute == 60
\* timedelta(minutes=m), in ticks
timedelta(minutes) == minutes * SecondsPerMinute * TicksPerSecond

\* jwt.decode(token, key, algorithms=[ALGORITHM]) at time now: JWTError (here
\* None) for a string that is no JWT, for a signature made with another key,
\* and for an "exp" claim that lies before now, both in whole seconds
jwt_decode(token, key, now) ==
    IF token.kind # "jwt" THEN None
    ELSE IF token.key # key THEN None
    ELSE IF token.exp # NoExp /\ token.exp < timegm(now) THEN None
    ELSE Claims(token.sub, token.exp)

\* a create_access_token that leaves the "exp" claim out
create_access_token_no_exp(sub, expires_minutes, now) ==
    jwt_encode(sub, NoExp, SECRET_KEY)

create_access_token(sub, expires_minutes, now) ==
    LET expire == now + timedelta(expires_minutes)
    IN  jwt_encode(sub, timegm(expire), SECRET_KEY)

create_refresh_token(sub) == jwt_encode(sub, NoExp, SECRET_KEY)

\* a decode_access_token that takes only tokens with an "exp" claim
decode_access_token_requires_exp(token, now) ==
    IF token.exp = NoExp THEN None ELSE jwt_decode(token, SECRET_KEY, now)

decode_access_token(token, now) == jwt_decode(token, SECRET_KEY, now)

\* a decode_token that also wants a row of the user table for the subject
decode_token_checks_user(token, now) ==
    IF {u \in users : u.email = token.sub} = {} THEN None
    ELSE jwt_decode(token, SECRET_KEY, now)

\* a decode_token that reads the claims without checking the signature
decode_token_unverified(token, now) == jwt_decode(token, token.key, now)

decode_token(token, now) == jwt_decode(token, SECRET_KEY, now)

\* "if not payload": None and the empty dict are falsy; decoded claims always
\* hold "sub", so only None is
Falsy(payload) == payload.none

(************************* src/models.py, the store ************************)

\* a row of the user table
User(id, name, email, password) ==
    [id |-> id, name |-> name, email |-> email, password |-> password]

\* a row of the conversation table with the number of its message rows
Conversation(id, title, user_id, msgs) ==
    [id |-> id, title |-> title, user_id |-> user_id, msgs |-> msgs]

Max(S) == CHOOSE x \in S : \A y \in S : y <= x

\* INTEGER PRIMARY KEY of SQLite: one more than the largest key in the table
NextId(rows) == IF rows = {} THEN 1 ELSE Max({r.id : r \in rows}) + 1

\* session.get(User, user_id)
GetUser(user_id) == {u \in users : u.id = user_id}

\* select(User).where(User.email == email): the rows, and .first() of them,
\* which is the row with the smallest key
ByEmail(email) == {u \in users : u.email = email}
First(rows) == CHOOSE u \in rows : \A v \in rows : u.id <= v.id

\* session.add(user); session.commit() of a new row: the table after it. The
\* id is the one given, or the next key. The table declares no constraint
\* but the primary key.
Insert(table, id, name, email, password) ==
    table \cup {User(IF id = NoId THEN NextId(table) ELSE id, name, email, password)}

\* the primary key of an insert collides: the commit raises IntegrityError
KeyCollides(table, id) == id # NoId /\ \E u \in table : u.id = id

(******************************** responses ********************************)

\* the last response: the route, the status and detail, whether the handler
\* body was entered, the token the request carried in its Authorization
\* header or its cookie, the time of the request, the principal or e-mail the
\* request was about, the access token of the body and the refresh_token
\* cookie of a Set-Cookie header (NoneTok: there is none)
Reply(op, status, detail, ran, tok, sub, access, cookie) ==
    [op |-> op, status |-> status, detail |-> detail, ran |-> ran, tok |-> tok,
     at |-> clock, sub |-> sub, access |-> access, cookie |-> cookie]

\* the clients keep, for each subject, the refresh token and the access token
\* that a response handed out last
Keep(tokens) ==
    LET new == {t \in tokens : t.kind = "jwt"}
        replaced == {t \in issued : \E n \in new :
                        n.sub = t.sub /\ (n.exp = NoExp) = (t.exp = NoExp)}
    IN  (issued \ replaced) \cup new

\* tokens signed with a key that is not the server's
Forged == {jwt_encode("a@x.com", NoExp, OtherKey)}

\* what a request may carry as a token: nothing, an empty or malformed
\* string, a forged token, or any token the server handed out before
Presentable == {NoneTok, EmptyTok, GarbageTok} \cup Forged \cup issued

(********************************** state **********************************)

NoRequest == [id |-> NoId, name |-> "", email |-> "", password |-> "",
              seen |-> FALSE, status |-> 0, detail |-> ""]

Init ==
    /\ users = {}
    /\ convos = {}
    /\ clock = 0
    /\ issued = {}
    /\ jar = NoneTok
    /\ resp = Reply("", 0, "", FALSE, NoneTok, "", NoneTok, NoneTok)
    /\ pc = [c \in Clients |-> "idle"]
    /\ local = [c \in Clients |-> NoRequest]

(************************ src/main.py, user management *********************)

\* POST /users
create_user(id, name, email, password) ==
    /\ id # NoId \/ NextId(users) <= MaxId
    /\ IF KeyCollides(users, id)
       THEN /\ resp' = Reply("create_user", 500, "IntegrityError", TRUE,
                             NoneTok, email, NoneTok, NoneTok)
            /\ UNCHANGED users
       ELSE /\ users' = Insert(users, id, name, email, Plain(password))
            /\ resp' = Reply("create_user", 200, "User added", TRUE,
                             NoneTok, email, NoneTok, NoneTok)
    /\ UNCHANGED <<convos, clock, issued, jar, pc, local>>

\* PUT /users/{user_id}
update_user(user_id, name, email) ==
    /\ IF GetUser(user_id) = {}
       THEN /\ resp' = Reply("update_user", 404, "User not found", TRUE,
                             NoneTok, email, NoneTok, NoneTok)
            /\ UNCHANGED users
       ELSE LET user == CHOOSE u \in GetUser(user_id) : TRUE
            IN  /\ users' = (users \ {user})
                               \cup {User(user.id, name, email, user.password)}
                /\ resp' = Reply("update_user", 200, "User updated", TRUE,
                                 NoneTok, email, NoneTok, NoneTok)
    /\ UNCHANGED <<convos, clock, issued, jar, pc, local>>

\* DELETE /users/{user_id}
delete_user(user_id) ==
    /\ IF GetUser(user_id) = {}
       THEN /\ resp' = Reply("delete_user", 404, "User not found", TRUE,
                             NoneTok, "", NoneTok, NoneTok)
            /\ UNCHANGED users
       ELSE /\ users' = users \ GetUser(user_id)
            /\ resp' = Reply("delete_user", 200, "User deleted", TRUE,
                             NoneTok, "", NoneTok, NoneTok)
    /\ UNCHANGED <<convos, clock, issued, jar, pc, local>>

(************************* src/main.py, signup *****************************)

\* POST /signup, the requests handled one after another
signup(id, name, email, password) ==
    /\ (ByEmail(email) = {} /\ id = NoId) => NextId(users) <= MaxId
    /\ IF ByEmail(email) # {}
       THEN /\ resp' = Reply("signup", 400, "User already exists", TRUE,
                             NoneTok, email, NoneTok, NoneTok)
            /\ UNCHANGED users
       ELSE IF KeyCollides(users, id)
       THEN /\ resp' = Reply("signup", 500, "IntegrityError", TRUE,
                             NoneTok, email, NoneTok, NoneTok)
            /\ UNCHANGED users
       ELSE /\ \E digest \in hash_password(password) :
                   users' = Insert(users, id, name, email, digest)
            /\ resp' = Reply("signup", 200, "User registered!", TRUE,
                             NoneTok, email, NoneTok, NoneTok)
    /\ UNCHANGED <<convos, clock, issued, jar, pc, local>>

\* POST /signup as the server runs it for concurrent requests, each in a
\* thread and a session of its own: the lookup, then the insert and commit
signup_lookup(c, id, name, email, password) ==
    /\ pc[c] = "idle"
    /\ local' = [local EXCEPT ![c] =
                    [id |-> id, name |-> name, email |-> email,
                     password |-> password, seen |-> ByEmail(email) # {},
                     status |-> 0, detail |-> ""]]
    /\ pc' = [pc EXCEPT ![c] = "checked"]
    /\ UNCHANGED <<users, convos, clock, issued, jar, resp>>

signup_commit(c) ==
    /\ pc[c] = "checked"
    /\ LET r == local[c]
       IN  /\ (~r.seen /\ r.id = NoId) => NextId(users) <= MaxId
           /\ IF r.seen
              THEN /\ local' = [local EXCEPT ![c].status = 400,
                                             ![c].detail = "User already exists"]
                   /\ UNCHANGED users
              ELSE IF KeyCollides(users, r.id)
              THEN /\ local' = [local EXCEPT ![c].status = 500,
                                             ![c].detail = "IntegrityError"]
                   /\ UNCHANGED users
              ELSE /\ \E digest \in hash_password(r.password) :
                          users' = Insert(users, r.id, r.name, r.email, digest)
                   /\ local' = [local EXCEPT ![c].status = 200,
                                             ![c].detail = "User registered!"]
    /\ pc' = [pc EXCEPT ![c] = "done"]
    /\ UNCHANGED <<convos, clock, issued, jar, resp>>

(********************* src/main.py, login / refresh / logout ***************)

ExpiresMinutes == 15

\* POST /login
login(username, password) ==
    LET rows == ByEmail(username)
        user == First(rows)
        check == verify_password(password, user.password)
        access_token == create_access_token(user.email, ExpiresMinutes, clock)
        refresh_token == create_refresh_token(user.email)
    IN  /\ IF rows = {}
           THEN /\ resp' = Reply("login", 401, "User not found", TRUE,
                                 NoneTok, username, NoneTok, NoneTok)
                /\ UNCHANGED <<issued, jar>>
           ELSE IF check = "error"
           THEN /\ resp' = Reply("login", 500, "UnknownHashError", TRUE,
                                 NoneTok, username, NoneTok, NoneTok)
                /\ UNCHANGED <<issued, jar>>
           ELSE IF check = "mismatch"
           THEN /\ resp' = Reply("login", 401, "Incorrect password", TRUE,
                                 NoneTok, username, NoneTok, NoneTok)
                /\ UNCHANGED <<issued, jar>>
           ELSE /\ resp' = Reply("login", 200, "", TRUE,
                                 NoneTok, username, access_token, refresh_token)
                /\ issued' = Keep({access_token, refresh_token})
                /\ jar' = refresh_token
        /\ UNCHANGED <<users, convos, clock, pc, local>>

\* POST /refresh with the refresh_token cookie of the request
refresh_token(token) ==
    LET payload == decode_token(token, clock)
        new_access_token == create_access_token(payload.sub, ExpiresMinutes, clock)
    IN  /\ IF token.kind \in {"none", "empty"}
           THEN /\ resp' = Reply("refresh", 401, "No refresh token found", TRUE,
                                 token, "", NoneTok, NoneTok)
                /\ UNCHANGED issued
           ELSE IF Falsy(payload)
           THEN /\ resp' = Reply("refresh", 401, "Invalid refresh token", TRUE,
                                 token, "", NoneTok, NoneTok)
                /\ UNCHANGED issued
           ELSE /\ resp' = Reply("refresh", 200, "", TRUE,
                                 token, payload.sub, new_access_token, NoneTok)
                /\ issued' = Keep({new_access_token})
        /\ UNCHANGED <<users, convos, clock, jar, pc, local>>

\* GET /logout: delete_cookie sends an empty, expired refresh_token cookie,
\* and the browser drops the one it holds
logout ==
    /\ resp' = Reply("logout", 200, "Logged out", TRUE,
                     NoneTok, "", NoneTok, EmptyTok)
    /\ jar' = NoneTok
    /\ UNCHANGED <<users, convos, clock, issued, pc, local>>

(********************* src/main.py, the protected routes *******************)

\* oauth2_scheme = OAuth2PasswordBearer(tokenUrl="login"): the request has an
\* Authorization header of the Bearer scheme; its parameter is the token
oauth2_scheme(auth) == auth.kind # "none"

\* get_current_user: the payload of the token, None standing for the 401
get_current_user(token, now) == decode_access_token(token, now)

\* the 401 of a request that oauth2_scheme or get_current_user turns away
Denied(op, auth) ==
    Reply(op, 401,
          IF oauth2_scheme(auth) THEN "Invalid or expired token" ELSE "Not authenticated",
          FALSE, auth, "", NoneTok, NoneTok)

\* GET /ping depends on oauth2_scheme alone
ping(auth) ==
    /\ resp' = IF ~oauth2_scheme(auth) THEN Denied("ping", auth)
               ELSE Reply("ping", 200, "pong", TRUE, auth, "", NoneTok, NoneTok)
    /\ UNCHANGED <<users, convos, clock, issued, jar, pc, local>>

\* GET /profile
protected_profile(auth) ==
    LET current_user == get_current_user(auth, clock)
    IN  /\ resp' = IF ~oauth2_scheme(auth) \/ Falsy(current_user)
                   THEN Denied("profile", auth)
                   ELSE Reply("profile", 200, "Hello", TRUE, auth,
                              current_user.sub, NoneTok, NoneTok)
        /\ UNCHANGED <<users, convos, clock, issued, jar, pc, local>>

\* POST /generate-text; upstream is what the environment and OpenRouter do:
\* no API key configured, an answer with choices, an answer without, or a
\* transport error
generate_text(auth, upstream) ==
    LET current_user == get_current_user(auth, clock)
    IN  /\ resp' = IF ~oauth2_scheme(auth) \/ Falsy(current_user)
                   THEN Denied("generate-text", auth)
                   ELSE CASE upstream = "no_key" ->
                               Reply("generate-text", 500, "Missing OpenRouter API key",
                                     TRUE, auth, current_user.sub, NoneTok, NoneTok)
                          [] upstream = "ok" ->
                               Reply("generate-text", 200, "response",
                                     TRUE, auth, current_user.sub, NoneTok, NoneTok)
                          [] upstream = "no_choices" ->
                               Reply("generate-text", 500, "GenAI Error",
                                     TRUE, auth, current_user.sub, NoneTok, NoneTok)
                          [] OTHER ->
                               Reply("generate-text", 502, "Request error",
                                     TRUE, auth, current_user.sub, NoneTok, NoneTok)
        /\ UNCHANGED <<users, convos, clock, issued, jar, pc, local>>

Upstreams == {"no_key", "ok", "no_choices", "request_error"}

\* POST /save-conversation; data is a body with a title and one message, a
\* body without "title", or a body whose message lacks "content"
save_conversation(auth, data) ==
    LET user == get_current_user(auth, clock)
    IN  /\ IF ~oauth2_scheme(auth) \/ Falsy(user)
           THEN /\ resp' = Denied("save-conversation", auth)
                /\ UNCHANGED convos
           ELSE IF data = "no_title"
           THEN /\ resp' = Reply("save-conversation", 500, "KeyError", TRUE, auth,
                                 user.sub, NoneTok, NoneTok)
                /\ UNCHANGED convos
           ELSE /\ NextId(convos) <= MaxConvos
                /\ convos' = convos \cup
                      {Conversation(NextId(convos), "title", user.sub,
                                    IF data = "ok" THEN 1 ELSE 0)}
                /\ resp' = IF data = "ok"
                           THEN Reply("save-conversation", 200, "Conversation saved",
                                      TRUE, auth, user.sub, NoneTok, NoneTok)
                           ELSE Reply("save-conversation", 500, "KeyError",
                                      TRUE, auth, user.sub, NoneTok, NoneTok)
        /\ UNCHANGED <<users, clock, issued, jar, pc, local>>

Bodies == {"ok", "no_title", "bad_message"}

\* GET /conversations
get_conversations(auth) ==
    LET user == get_current_user(auth, clock)
    IN  /\ resp' = IF ~oauth2_scheme(auth) \/ Falsy(user)
                   THEN Denied("conversations", auth)
                   ELSE Reply("conversations", 200, "", TRUE, auth,
                              user.sub, NoneTok, NoneTok)
        /\ UNCHANGED <<users, convos, clock, issued, jar, pc, local>>

(********************************* the clock *******************************)

\* one access-token lifetime, in ticks
Period == timedelta(ExpiresMinutes)

\* the clock is explored to MaxDrift ticks past one access-token lifetime
Horizon == Period + MaxDrift

\* time passes: by one tick, or by one access-token lifetime
Tick(d) ==
    /\ d \in {1, Period}
    /\ d = 1 => clock % Period < MaxDrift
    /\ clock + d <= Horizon
    /\ clock' = clock + d
    /\ UNCHANGED <<users, convos, issued, jar, resp, pc, local>>

(****************************** specifications *****************************)

\* the user table under signup, the user-management routes and login
Next ==
    \/ \E id \in {NoId} \cup Ids, n \in Names, e \in Emails, p \in Passwords :
          signup(id, n, e, p)
    \/ \E id \in {NoId} \cup Ids, n \in Names, e \in Emails, p \in Passwords :
          create_user(id, n, e, p)
    \/ \E id \in Ids, n \in Names, e \in Emails : update_user(id, n, e)
    \/ \E id \in Ids : delete_user(id)
    \/ \E e \in Emails, p \in Passwords : login(e, p)

Spec == Init /\ [][Next]_vars

\* concurrent signups
NextRace ==
    \/ \E c \in Clients, n \in Names, e \in Emails, p \in Passwords :
          signup_lookup(c, NoId, n, e, p)
    \/ \E c \in Clients : signup_commit(c)

SpecRace == Init /\ [][NextRace]_vars

\* the routes behind the bearer token, with users who sign up and log in
NextGate ==
    \/ \E e \in Emails : signup(NoId, "ann", e, "pw1")
    \/ \E e \in Emails, p \in Passwords : login(e, p)
    \/ \E t \in Presentable : ping(t)
    \/ \E t \in Presentable : protected_profile(t)
    \/ \E t \in Presentable, u \in Upstreams : generate_text(t, u)
    \/ \E t \in Presentable, d \in Bodies : save_conversation(t, d)
    \/ \E t \in Presentable : get_conversations(t)
    \/ \E d \in {1, Period} : Tick(d)

SpecGate == Init /\ [][NextGate]_vars

\* the token life cycle: signup, login, refresh, logout, a protected route,
\* user update and delete, and the clock
NextToken ==
    \/ \E e \in Emails : signup(NoId, "ann", e, "pw1")
    \/ \E e \in Emails, p \in Passwords : login(e, p)
    \/ \E t \in Presentable : refresh_token(t)
    \/ logout
    \/ \E t \in Presentable : protected_profile(t)
    \/ \E id \in Ids, e \in Emails : update_user(id, "ann", e)
    \/ \E id \in Ids : delete_user(id)
    \/ \E d \in {1, Period} : Tick(d)

SpecToken == Init /\ [][NextToken]_vars

(********************************** claims *********************************)

\* what the claims mean by a token that verifies at a time: a JWT signed
\* with the server's key whose expiry, if it has one, is not in the past
Verifies(tok, now) ==
    /\ tok.kind = "jwt"
    /\ tok.key = SECRET_KEY
    /\ tok.exp = NoExp \/ timegm(now) <= tok.exp

\* a token the server handed out: nothing else carries its signature
Issued(tok) == tok.kind = "jwt" /\ tok.key = SECRET_KEY

IsAccess(tok) == tok.kind = "jwt" /\ tok.exp # NoExp
IsRefresh(tok) == tok.kind = "jwt" /\ tok.exp = NoExp

GatedRoutes == {"ping", "profile", "generate-text", "save-conversation", "conversations"}

\* C1: on every route that requires a bearer token, a request whose token
\* does not verify is answered 401 and the handler body is not entered.
C1_UnverifiedNeverRuns ==
    (resp.op \in GatedRoutes /\ ~Verifies(resp.tok, resp.at))
        => (resp.status = 401 /\ ~resp.ran)

\* C2: no two rows of the user table have the same e-mail.
C2_EmailUnique ==
    \A u, v \in users : u.email = v.email => u = v

\* C3: the password column of every row holds a digest made by
\* hash_password, never the text the client submitted.
C3_PasswordAlwaysDigest ==
    \A u \in users : \E p \in Passwords : u.password \in hash_password(p)

\* C5: when all of two or more concurrent signups with one e-mail have
\* finished, at most one got 200, every other got 400 "User already
\* exists", and the table holds exactly one row for that e-mail.
C5_ConcurrentSignupOneWinner ==
    (\A c \in Clients : pc[c] = "done") =>
        \A e \in Emails :
            LET same == {c \in Clients : local[c].email = e}
                won == {c \in same : local[c].status = 200}
            IN  Cardinality(same) >= 2 =>
                    /\ Cardinality(won) <= 1
                    /\ \A c \in same \ won :
                          /\ local[c].status = 400
                          /\ local[c].detail = "User already exists"
                    /\ Cardinality(ByEmail(e)) = 1

\* C6: a signup with an e-mail that already has a row is answered 400 "User
\* already exists", leaves the table as it was, with exactly one row for
\* that e-mail, and hands out no token.
C6_DuplicateSignupRejected ==
    [][\A id \in {NoId} \cup Ids, n \in Names, e \in Emails, p \in Passwords :
          (signup(id, n, e, p) /\ ByEmail(e) # {}) =>
              /\ resp'.status = 400
              /\ resp'.detail = "User already exists"
              /\ users' = users
              /\ Cardinality({u \in users' : u.email = e}) = 1
              /\ resp'.access = NoneTok /\ resp'.cookie = NoneTok
              /\ issued' = issued]_vars

\* C7: login answers 200 with tokens exactly when a row with the submitted
\* e-mail exists and the submitted password verifies against its digest;
\* otherwise it answers 401 with no access token and no cookie; the tokens
\* of a 200 both carry the login e-mail as subject.
C7_LoginIffCredentialsMatch ==
    [][\A e \in Emails, p \in Passwords :
          login(e, p) =>
              LET match == \E u \in ByEmail(e) : verify_password(p, u.password) = "ok"
              IN  /\ (resp'.status = 200) <=> match
                  /\ ~match => /\ resp'.status = 401
                               /\ resp'.access = NoneTok /\ resp'.cookie = NoneTok
                               /\ issued' = issued /\ jar' = jar
                  /\ match => /\ resp'.access.kind = "jwt" /\ resp'.access.sub = e
                              /\ resp'.cookie.kind = "jwt" /\ resp'.cookie.sub = e]_vars

\* the times around the issue and the expiry of a token issued at t
Around(t) == (t .. t + TicksPerSecond)
                \cup (t + Period - TicksPerSecond .. t + Period + 2 * TicksPerSecond)

\* C4 as stated: while the last response is a login or refresh that issued
\* an access token at time t, the verifier accepts that token when the clock
\* is at most t + 15 min and rejects it when the clock is past t + 15 min;
\* the Session Gate answers 200 to an access token that verifies, else 401.
C4_RejectedRightAfterTTL ==
    /\ (resp.op \in {"login", "refresh"} /\ resp.status = 200) =>
          /\ clock <= resp.at + Period => ~Falsy(decode_access_token(resp.access, clock))
          /\ clock > resp.at + Period => Falsy(decode_access_token(resp.access, clock))
    /\ (resp.op = "profile" /\ Issued(resp.tok) /\ IsAccess(resp.tok)) =>
          /\ (resp.status = 200) <=> Verifies(resp.tok, resp.at)
          /\ resp.status \in {200, 401}

\* C4 amended: an access token issued at t is accepted by the verifier at
\* every time from t to t + 15 min and rejected at every time from one
\* second after t + 15 min on (the comparison is in whole seconds); the
\* Session Gate answers 200 when the token verifies and 401 when it does
\* not, and a token issued at the time of the request is accepted.
C4_RejectedWithinASecondAfterTTL ==
    /\ (resp.op \in {"login", "refresh"} /\ resp.status = 200) =>
          \A now \in Around(resp.at) \cup {clock} :
              /\ now <= resp.at + Period => ~Falsy(decode_access_token(resp.access, now))
              /\ now >= resp.at + Period + TicksPerSecond
                    => Falsy(decode_access_token(resp.access, now))
    /\ (resp.op = "profile" /\ Issued(resp.tok) /\ IsAccess(resp.tok)) =>
          /\ (resp.status = 200) <=> Verifies(resp.tok, resp.at)
          /\ resp.status \in {200, 401}
          /\ resp.tok.exp = timegm(resp.at + timedelta(15)) => resp.status = 200

\* an access token issued in the first second was turned away by the
\* Session Gate a second or more after the end of its lifetime
C4_Witness ==
    /\ resp.op = "profile" /\ resp.status = 401
    /\ Issued(resp.tok) /\ IsAccess(resp.tok)
    /\ resp.tok.exp <= timegm(Period + TicksPerSecond)
    /\ resp.at >= Period + TicksPerSecond

\* C8 as stated: refresh answers 401 "No refresh token found" without a
\* cookie, 401 "Invalid refresh token" with a cookie whose token does not
\* verify, and with one that verifies 200 with a new 15-minute access token
\* for the same subject and no Set-Cookie.
C8_ThreeOutcomesByCookie ==
    resp.op = "refresh" =>
        IF resp.tok.kind = "none"
        THEN resp.status = 401 /\ resp.detail = "No refresh token found"
        ELSE IF ~Verifies(resp.tok, resp.at)
        THEN resp.status = 401 /\ resp.detail = "Invalid refresh token"
        ELSE /\ resp.status = 200
             /\ resp.access = jwt_encode(resp.tok.sub,
                                         timegm(resp.at + timedelta(15)), SECRET_KEY)
             /\ resp.cookie = NoneTok

\* C8 amended: the same, except that an empty refresh_token cookie is
\* answered like a missing one, 401 "No refresh token found".
C8_ThreeOutcomesEmptyAsMissing ==
    resp.op = "refresh" =>
        IF resp.tok.kind \in {"none", "empty"}
        THEN /\ resp.status = 401 /\ resp.detail = "No refresh token found"
             /\ resp.access = NoneTok /\ resp.cookie = NoneTok
        ELSE IF ~Verifies(resp.tok, resp.at)
        THEN /\ resp.status = 401 /\ resp.detail = "Invalid refresh token"
             /\ resp.access = NoneTok /\ resp.cookie = NoneTok
        ELSE /\ resp.status = 200
             /\ resp.access = jwt_encode(resp.tok.sub,
                                         timegm(resp.at + timedelta(15)), SECRET_KEY)
             /\ resp.cookie = NoneTok

\* a refresh with the cookie of a login returned a new access token
C8_Witness ==
    /\ resp.op = "refresh" /\ resp.status = 200
    /\ resp.tok = jar /\ IsRefresh(resp.tok)
    /\ resp.access \in issued /\ resp.access.sub = resp.tok.sub

\* C9: whether an issued token is accepted depends on the token and the
\* time alone: refresh and the Session Gate answer 200 to an issued token
\* exactly when it has not expired, whatever was signed up, logged out,
\* updated or deleted since; so a refresh token of a login is always accepted.
C9_ValidityIsStateless ==
    /\ (resp.op \in {"refresh", "profile"} /\ Issued(resp.tok)) =>
          /\ (resp.status = 200) <=> (resp.tok.exp = NoExp \/ timegm(resp.at) <= resp.tok.exp)
          /\ resp.status # 200 => resp.status = 401
    /\ (resp.op = "refresh" /\ Issued(resp.tok) /\ IsRefresh(resp.tok)) =>
          /\ resp.status = 200
          /\ IsAccess(resp.access) /\ resp.access.sub = resp.tok.sub

\* a refresh token was accepted after logout, after the last row with its
\* e-mail was deleted, and more than an access-token lifetime after it was issued
C9_Witness ==
    /\ resp.op = "refresh" /\ resp.status = 200
    /\ Issued(resp.tok) /\ IsRefresh(resp.tok)
    /\ jar = NoneTok
    /\ ByEmail(resp.tok.sub) = {}
    /\ resp.at >= Period

\* what each of the two flows accepts, as its handler decides it
GateAccepts(tok, now) == oauth2_scheme(tok) /\ ~Falsy(get_current_user(tok, now))
RefreshAccepts(tok, now) ==
    tok.kind \notin {"none", "empty"} /\ ~Falsy(decode_token(tok, now))

\* C10: the Session Gate and refresh accept the same tokens: each answers
\* 200 exactly to the tokens the other accepts; a refresh token of a login
\* passes the gate with its subject as principal, and an unexpired access
\* token in the cookie is refreshed into a new access token.
C10_GateAndRefreshAcceptSame ==
    /\ \A tok \in Presentable : GateAccepts(tok, clock) <=> RefreshAccepts(tok, clock)
    /\ resp.op = "profile" => ((resp.status = 200) <=> RefreshAccepts(resp.tok, resp.at))
    /\ resp.op = "refresh" => ((resp.status = 200) <=> GateAccepts(resp.tok, resp.at))
    /\ (resp.op = "profile" /\ Issued(resp.tok) /\ IsRefresh(resp.tok)) =>
          resp.status = 200 /\ resp.sub = resp.tok.sub
    /\ (resp.op = "refresh" /\ Issued(resp.tok) /\ IsAccess(resp.tok)
            /\ timegm(resp.at) <= resp.tok.exp) =>
          /\ resp.status = 200
          /\ IsAccess(resp.access) /\ resp.access.sub = resp.tok.sub

\* a refresh token passed the Session Gate as a bearer token an
\* access-token lifetime or more after the start
C10_Witness ==
    /\ resp.op = "profile" /\ resp.status = 200
    /\ Issued(resp.tok) /\ IsRefresh(resp.tok)
    /\ resp.sub = resp.tok.sub
    /\ resp.at >= Period

=============================================================================
